---------------------------- MODULE Spec2Model ----------------------------
(***************************************************************************)
(* num-derive 0.2 (src/src/lib.rs): the two procedural macros              *)
(* #[derive(FromPrimitive)] and #[derive(ToPrimitive)], the const item     *)
(* each one emits, and the behaviour of the emitted from_i64 / from_u64 /  *)
(* to_i64 / to_u64 when the compiled program calls them.                   *)
(*                                                                         *)
(* Identifiers are sequences of one-character strings, so that             *)
(* to_uppercase is computed character by character.  64-bit integers are   *)
(* exact mathematical integers written in mixed radix (see Radix below),   *)
(* since 2^63 and 2^64 do not fit TLC's machine integers.                  *)
(***************************************************************************)
EXTENDS Integers, Sequences, FiniteSets, TLC

\* ------------------------------------------------------------- bounds
\* Longest variant list of an input enumeration.
MaxVariants == 3

\* ------------------------------------------------- 64-bit integers
\* An integer v with -2^63 <= v < 2^64 is the record [hi, mid, lo] with
\* v = hi * 2^60 + mid * 2^30 + lo, 0 <= mid, lo < 2^30 and -8 <= hi <= 15.
\* The representation is unique, so record equality is integer equality.
\* i64 is hi \in -8..7, u64 is hi \in 0..15.
Radix == 2^30

Big(h, m, l) == [hi |-> h, mid |-> m, lo |-> l]

\* The integer k, for -2^30 < k < 2^30.
Small(k) == IF k >= 0 THEN Big(0, 0, k) ELSE Big(-1, Radix - 1, Radix + k)

I64_MIN == Big(-8, 0, 0)
I64_MAX == Big(7, Radix - 1, Radix - 1)
U64_MAX == Big(15, Radix - 1, Radix - 1)
\* 2^63, the least u64 that is no i64.
U64_2P63 == Big(8, 0, 0)

IsI64(x) == x.hi \in -8..7
IsU64(x) == x.hi \in 0..15

\* x + 1 (the next implicit discriminant).
Succ(x) ==
    IF x.lo + 1 < Radix THEN [x EXCEPT !.lo = @ + 1]
    ELSE IF x.mid + 1 < Radix THEN [x EXCEPT !.lo = 0, !.mid = @ + 1]
    ELSE Big(x.hi + 1, 0, 0)

\* A saturating conversion in place of the cast: 2^63 and above become
\* i64::MAX.
AsI64_saturating(n) == IF n.hi >= 8 THEN I64_MAX ELSE n

\* `n as i64` for n: u64 (line 192): the same 64 bits read as two's
\* complement, that is n below 2^63 and n - 2^64 (16 * 2^60) from 2^63 on.
AsI64(n) == IF n.hi >= 8 THEN [n EXCEPT !.hi = @ - 16] ELSE n

\* The magnitude in place of the cast: a negative x keeps its bits' low part
\* but is not moved up by 2^64.
AsU64_unwrapped(x) == x

\* `x as u64` for x: i64 (line 301): x modulo 2^64.
AsU64(x) == IF x.hi < 0 THEN [x EXCEPT !.hi = @ + 16] ELSE x

\* Option<T>
None == <<>>
Some(x) == <<x>>

\* ----------------------------------------------------- identifiers
LowerChars == <<"a","b","c","d","e","f","g","h","i","j","k","l","m",
                "n","o","p","q","r","s","t","u","v","w","x","y","z">>
UpperChars == <<"A","B","C","D","E","F","G","H","I","J","K","L","M",
                "N","O","P","Q","R","S","T","U","V","W","X","Y","Z">>

\* char::to_uppercase on an ASCII character.
UpperChar(c) ==
    IF \E k \in 1..Len(LowerChars) : LowerChars[k] = c
    THEN UpperChars[CHOOSE k \in 1..Len(LowerChars) : LowerChars[k] = c]
    ELSE c

\* str::to_uppercase (lines 78, 79).
to_uppercase(s) == [i \in 1..Len(s) |-> UpperChar(s[i])]

\* The trait_ literals the two macros pass (lines 179, 290), spelled as there.
FromPrimative == <<"F","r","o","m","P","r","i","m","a","t","i","v","e">>
ToPrimative == <<"T","o","P","r","i","m","a","t","i","v","e">>

\* The identifier of the wrapping const: format!("_IMPL_NUM_{}_FOR_{}", ..)
\* (lines 75-82).
dummy_const_ident(trait_, name) ==
    <<"_","I","M","P","L","_","N","U","M","_">> \o to_uppercase(trait_)
        \o <<"_","F","O","R","_">> \o to_uppercase(name)

\* --------------------------------------------------------- inputs
\* Names of the annotated types.
TypeNames == { <<"F","o","o">>, <<"F","O","O">>, <<"B","a","r">> }

\* Variant identifiers, by position (the doc example's come first).
IdentPool == << <<"R","e","d">>, <<"B","l","u","e">>, <<"G","r","e","e","n">>,
                <<"C","y","a","n">>, <<"P","i","n","k">> >>

\* Explicit discriminants an input variant may carry.
ExplicitDiscs == { Small(-1), Small(1), Small(5), Small(42), I64_MIN }

\* A variant's shape: syn::Fields and the optional `= expr`.  Only unit
\* variants are given explicit discriminants.
VariantShapes ==
    { [fields |-> "Unit", discriminant |-> d] :
        d \in {None} \cup { Some(x) : x \in ExplicitDiscs } }
    \cup { [fields |-> f, discriminant |-> None] : f \in {"Named", "Unnamed"} }

VariantsOf(shapes) ==
    [i \in 1..Len(shapes) |->
        [ident |-> IdentPool[i], fields |-> shapes[i].fields,
         discriminant |-> shapes[i].discriminant]]

VariantLists ==
    UNION { { VariantsOf(s) : s \in [1..len -> VariantShapes] } :
            len \in 0..MaxVariants }

\* syn::DeriveInput: ident and data (Data::Enum with its variants, or
\* Data::Struct / Data::Union, which have none).
TypeDefs ==
    { [ident |-> n, data |-> "Enum", variants |-> vs] :
        n \in TypeNames, vs \in VariantLists }
    \cup { [ident |-> n, data |-> k, variants |-> <<>>] :
        n \in TypeNames, k \in {"Struct", "Union"} }

\* The derives written on the type, in the order rustc expands them.
DeriveLists ==
    { <<"FromPrimitive">>, <<"ToPrimitive">>,
      <<"FromPrimitive", "ToPrimitive">>, <<"ToPrimitive", "FromPrimitive">> }

\* Arguments the compiled program passes to from_i64 and from_u64.
I64Inputs == { Small(-1), Small(0), Small(1), Small(2), Small(5), Small(42),
               I64_MIN, I64_MAX }
U64Inputs == { Small(0), Small(1), Small(2), Small(5), Small(42),
               I64_MAX, U64_2P63, U64_MAX }

\* Types of the second specification, a crate with several annotated types:
\* a struct, and the enumerations of one variant that is a plain unit variant
\* or a struct-like one.
CrateTypeDefs ==
    { t \in TypeDefs :
        \/ t.data = "Struct"
        \/ /\ t.data = "Enum"
           /\ Len(t.variants) = 1
           /\ t.variants[1].fields \in {"Unit", "Named"}
           /\ t.variants[1].discriminant = None }

\* ------------------------------------------- the language's semantics
\* The discriminant rustc gives variant k: its explicit value, or one more
\* than the previous variant's, 0 for the first.
RECURSIVE Discr(_, _)
Discr(variants, k) ==
    IF variants[k].discriminant # None THEN variants[k].discriminant[1]
    ELSE IF k = 1 THEN Small(0)
    ELSE Succ(Discr(variants, k - 1))

IndexOf(variants, ident) ==
    CHOOSE k \in 1..Len(variants) : variants[k].ident = ident

\* The variant's position in place of its cast: explicit discriminants are
\* ignored.
as_i64_positional(ty, path) == Small(IndexOf(ty.variants, path[2]) - 1)

\* `#name::#ident as i64` (lines 166, 273) evaluated in the compiled program;
\* a path is <<name, ident>>.
as_i64(ty, path) == Discr(ty.variants, IndexOf(ty.variants, path[2]))

\* The values of the type: one per variant.
Values(ty) == { <<ty.ident, ty.variants[k].ident>> : k \in 1..Len(ty.variants) }

\* ------------------------------------------------- the generators
\* A check that rejects struct-like variants only.
IsUnit_tuple_accepted(fields) == fields # "Named"

\* match variant.fields { Fields::Unit => (), _ => panic!(..) }
\* (lines 156-163, 263-268).
IsUnit(fields) == fields = "Unit"

\* quote! { if #from_i64_var == #name::#ident as i64 { Some(#name::#ident) } }
\* (lines 165-169).
from_clause(from_i64_var, name, ident) ==
    [cond_var |-> from_i64_var, cast |-> <<name, ident>>,
     some |-> <<name, ident>>]

\* quote!(#name::#ident => #name::#ident as i64) (line 273).
to_arm(name, ident) == [pat |-> <<name, ident>>, cast |-> <<name, ident>>]

\* The parameter always named.
from_i64_param_named(cl) == "n"

\* let from_i64_var = if clauses.is_empty() { quote!(_) } else { from_i64_var }
\* (lines 173-177).
from_i64_param(cl) == IF cl = <<>> THEN "_" ELSE "n"

\* An impl that loses the last clause.
from_impl_short(name, cl) ==
    [impl_for |-> name, from_i64_var |-> from_i64_param(cl),
     clauses |-> SubSeq(cl, 1, Len(cl) - 1)]

\* The impl of lines 183-194: from_i64's parameter and clause chain; the
\* chain's final block is `{ None }` and from_u64 is fixed text.
from_impl(name, cl) ==
    [impl_for |-> name, from_i64_var |-> from_i64_param(cl), clauses |-> cl]

\* match_expr (lines 277-288): `match *self {}` bare when there are no
\* arms, Some(match *self { arms }) otherwise.
match_expr(arms) ==
    IF arms = <<>> THEN [some |-> FALSE, arms |-> <<>>]
    ELSE [some |-> TRUE, arms |-> arms]

\* The impl of lines 294-303.
to_impl(name, arms) == [impl_for |-> name, match_expr |-> match_expr(arms)]

\* const #dummy_const: () = { #exp }; (lines 70-88).
dummy_const_trick(trait_, name, exp) ==
    [dummy_const |-> dummy_const_ident(trait_, name), exp |-> exp]

\* panic!("`FromPrimitive` can be applied only to the enums, {} is not an enum")
not_enum_panic(trait, name) ==
    [trait |-> trait, fmt |-> "can be applied only to the enums, {} is not an enum",
     args |-> <<name>>]

\* panic!("`..` can be applied only to unitary enums, {}::{} is either
\* struct or tuple", name, ident)
not_unit_panic(trait, name, ident) ==
    [trait |-> trait,
     fmt |-> "can be applied only to unitary enums, {}::{} is either struct or tuple",
     args |-> <<name, ident>>]

NoDiag == [trait |-> "", fmt |-> "", args |-> <<>>]

\* ------------------------------------------- the generated functions
\* fn from_i64(n: i64) -> Option<Self> { #(#clauses else)* { None } }
\* (lines 185-189): the first clause whose test holds decides.
RECURSIVE eval_clauses(_, _, _)
RECURSIVE eval_clauses_last(_, _, _)

\* Independent tests, the last one that holds deciding.
eval_clauses_last(cl, ty, n) ==
    IF cl = <<>> THEN None
    ELSE IF n = as_i64(ty, cl[Len(cl)].cast) THEN Some(cl[Len(cl)].some)
    ELSE eval_clauses_last(SubSeq(cl, 1, Len(cl) - 1), ty, n)

eval_clauses(cl, ty, n) ==
    IF cl = <<>> THEN None
    ELSE IF n = as_i64(ty, Head(cl).cast) THEN Some(Head(cl).some)
    ELSE eval_clauses(Tail(cl), ty, n)

from_i64(impl, ty, n) == eval_clauses(impl.clauses, ty, n)

\* A range check in place of the cast: 2^63 and above are rejected.
from_u64_checked(impl, ty, n) ==
    IF n.hi >= 8 THEN None ELSE from_i64(impl, ty, n)

\* fn from_u64(n: u64) -> Option<Self> { Self::from_i64(n as i64) }
from_u64(impl, ty, n) == from_i64(impl, ty, AsI64(n))

\* match *self { #(#variants,)* }: the first arm whose pattern is self.
eval_match(arms, ty, self) ==
    LET k == CHOOSE i \in 1..Len(arms) :
                 /\ arms[i].pat = self
                 /\ \A j \in 1..(i - 1) : arms[j].pat # self
    IN  as_i64(ty, arms[k].cast)

\* fn to_i64(&self) -> Option<i64> { #match_expr } (lines 296-298).
to_i64(impl, ty, self) ==
    IF impl.match_expr.some THEN Some(eval_match(impl.match_expr.arms, ty, self))
    ELSE eval_match(impl.match_expr.arms, ty, self)

\* fn to_u64(&self) -> Option<u64> { self.to_i64().map(|x| x as u64) }
to_u64(impl, ty, self) ==
    LET r == to_i64(impl, ty, self)
    IN  IF r = None THEN None ELSE Some(AsU64(r[1]))

\* ------------------------------------------------------------ state
VARIABLES
    ast,         \* the annotated type (syn::DeriveInput)
    todo,        \* derives of the type not yet expanded
    derive,      \* the macro now running, or that ran last
    pc,          \* where the running macro is
    iter,        \* position of variants.iter()
    clauses,     \* clauses (from_primitive) or arms (to_primitive) mapped so far
    checked,     \* history: positions whose fields matched Fields::Unit
    diag,        \* the panic message of the macro that ran last
    from_items,  \* const items emitted by from_primitive
    to_items,    \* const items emitted by to_primitive
    call,        \* the generated function the program called last
    ret          \* what it returned

vars == <<ast, todo, derive, pc, iter, clauses, checked, diag,
          from_items, to_items, call, ret>>

NoCall == [fn |-> "none", arg |-> None, src |-> None]

Idle ==
    /\ derive = "none"
    /\ pc = "idle"
    /\ iter = 0
    /\ clauses = <<>>
    /\ checked = {}
    /\ diag = NoDiag
    /\ from_items = {}
    /\ to_items = {}
    /\ call = NoCall
    /\ ret = None

Init ==
    /\ ast \in TypeDefs
    /\ todo \in DeriveLists
    /\ Idle

Ended == pc \in {"idle", "done", "panicked"}

\* ------------------------------------------------- from_primitive
\* Lines 139-141: rustc hands the type to the macro.
from_primitive_parse ==
    /\ Ended
    /\ todo # <<>>
    /\ Head(todo) = "FromPrimitive"
    /\ todo' = Tail(todo)
    /\ derive' = "FromPrimitive"
    /\ pc' = "match_data"
    /\ iter' = 0
    /\ clauses' = <<>>
    /\ checked' = {}
    /\ diag' = NoDiag
    /\ UNCHANGED <<ast, from_items, to_items, call, ret>>

\* Lines 143-149.
from_primitive_match_data ==
    /\ derive = "FromPrimitive"
    /\ pc = "match_data"
    /\ IF ast.data = "Enum"
       THEN /\ pc' = "map"
            /\ iter' = 1
            /\ diag' = diag
       ELSE /\ pc' = "panicked"
            /\ iter' = iter
            /\ diag' = not_enum_panic("FromPrimitive", ast.ident)
    /\ UNCHANGED <<ast, todo, derive, clauses, checked, from_items, to_items,
                   call, ret>>

\* Lines 154-163: the closure's match on the next variant's fields.
from_primitive_match_fields ==
    /\ derive = "FromPrimitive"
    /\ pc = "map"
    /\ iter <= Len(ast.variants)
    /\ IF IsUnit(ast.variants[iter].fields)
       THEN /\ pc' = "quote"
            /\ checked' = checked \cup {iter}
            /\ diag' = diag
       ELSE /\ pc' = "panicked"
            /\ checked' = checked
            /\ diag' = not_unit_panic("FromPrimitive", ast.ident,
                                      ast.variants[iter].ident)
    /\ UNCHANGED <<ast, todo, derive, iter, clauses, from_items, to_items,
                   call, ret>>

\* Lines 165-169: the closure's result, pushed by collect().
from_primitive_quote ==
    /\ derive = "FromPrimitive"
    /\ pc = "quote"
    /\ clauses' = Append(clauses,
                         from_clause("n", ast.ident, ast.variants[iter].ident))
    /\ iter' = iter + 1
    /\ pc' = "map"
    /\ UNCHANGED <<ast, todo, derive, checked, diag, from_items, to_items,
                   call, ret>>

\* Lines 171-195: the iterator is exhausted; the item is built and returned.
from_primitive_emit ==
    /\ derive = "FromPrimitive"
    /\ pc = "map"
    /\ iter > Len(ast.variants)
    /\ from_items' = from_items \cup
           { dummy_const_trick(FromPrimative, ast.ident,
                               from_impl(ast.ident, clauses)) }
    /\ pc' = "done"
    /\ UNCHANGED <<ast, todo, derive, iter, clauses, checked, diag, to_items,
                   call, ret>>

\* --------------------------------------------------- to_primitive
\* Lines 247-249.
to_primitive_parse ==
    /\ Ended
    /\ todo # <<>>
    /\ Head(todo) = "ToPrimitive"
    /\ todo' = Tail(todo)
    /\ derive' = "ToPrimitive"
    /\ pc' = "match_data"
    /\ iter' = 0
    /\ clauses' = <<>>
    /\ checked' = {}
    /\ diag' = NoDiag
    /\ UNCHANGED <<ast, from_items, to_items, call, ret>>

\* Lines 251-257.
to_primitive_match_data ==
    /\ derive = "ToPrimitive"
    /\ pc = "match_data"
    /\ IF ast.data = "Enum"
       THEN /\ pc' = "map"
            /\ iter' = 1
            /\ diag' = diag
       ELSE /\ pc' = "panicked"
            /\ iter' = iter
            /\ diag' = not_enum_panic("ToPrimitive", ast.ident)
    /\ UNCHANGED <<ast, todo, derive, clauses, checked, from_items, to_items,
                   call, ret>>

\* Lines 261-268.
to_primitive_match_fields ==
    /\ derive = "ToPrimitive"
    /\ pc = "map"
    /\ iter <= Len(ast.variants)
    /\ IF IsUnit(ast.variants[iter].fields)
       THEN /\ pc' = "quote"
            /\ checked' = checked \cup {iter}
            /\ diag' = diag
       ELSE /\ pc' = "panicked"
            /\ checked' = checked
            /\ diag' = not_unit_panic("ToPrimitive", ast.ident,
                                      ast.variants[iter].ident)
    /\ UNCHANGED <<ast, todo, derive, iter, clauses, from_items, to_items,
                   call, ret>>

\* Line 273.
to_primitive_quote ==
    /\ derive = "ToPrimitive"
    /\ pc = "quote"
    /\ clauses' = Append(clauses, to_arm(ast.ident, ast.variants[iter].ident))
    /\ iter' = iter + 1
    /\ pc' = "map"
    /\ UNCHANGED <<ast, todo, derive, checked, diag, from_items, to_items,
                   call, ret>>

\* Lines 275-304.
to_primitive_emit ==
    /\ derive = "ToPrimitive"
    /\ pc = "map"
    /\ iter > Len(ast.variants)
    /\ to_items' = to_items \cup
           { dummy_const_trick(ToPrimative, ast.ident,
                               to_impl(ast.ident, clauses)) }
    /\ pc' = "done"
    /\ UNCHANGED <<ast, todo, derive, iter, clauses, checked, diag, from_items,
                   call, ret>>

\* ------------------------------------------- the compiled program
\* Every derive of the type expanded without a panic.
Compiled == pc = "done" /\ todo = <<>>

FromImpl == (CHOOSE i \in from_items : i.exp.impl_for = ast.ident).exp
ToImpl == (CHOOSE i \in to_items : i.exp.impl_for = ast.ident).exp
HasFrom == \E i \in from_items : i.exp.impl_for = ast.ident
HasTo == \E i \in to_items : i.exp.impl_for = ast.ident

\* One run of the model holds one call of the program, or one to_* call and
\* the from_* call on its result: the generated functions read nothing but
\* their argument, so further calls reach no other state.
\* The program calls from_i64 on an integer of its own.
call_from_i64 ==
    /\ call = NoCall
    /\ Compiled /\ HasFrom
    /\ \E n \in I64Inputs :
         /\ call' = [fn |-> "from_i64", arg |-> n, src |-> None]
         /\ ret' = from_i64(FromImpl, ast, n)
    /\ UNCHANGED <<ast, todo, derive, pc, iter, clauses, checked, diag,
                   from_items, to_items>>

call_from_u64 ==
    /\ call = NoCall
    /\ Compiled /\ HasFrom
    /\ \E n \in U64Inputs :
         /\ call' = [fn |-> "from_u64", arg |-> n, src |-> None]
         /\ ret' = from_u64(FromImpl, ast, n)
    /\ UNCHANGED <<ast, todo, derive, pc, iter, clauses, checked, diag,
                   from_items, to_items>>

\* The program calls to_i64 on a value of the type (there is none when the
\* enumeration has no variants).
call_to_i64 ==
    /\ call = NoCall
    /\ Compiled /\ HasTo
    /\ \E self \in Values(ast) :
         /\ call' = [fn |-> "to_i64", arg |-> self, src |-> None]
         /\ ret' = to_i64(ToImpl, ast, self)
    /\ UNCHANGED <<ast, todo, derive, pc, iter, clauses, checked, diag,
                   from_items, to_items>>

call_to_u64 ==
    /\ call = NoCall
    /\ Compiled /\ HasTo
    /\ \E self \in Values(ast) :
         /\ call' = [fn |-> "to_u64", arg |-> self, src |-> None]
         /\ ret' = to_u64(ToImpl, ast, self)
    /\ UNCHANGED <<ast, todo, derive, pc, iter, clauses, checked, diag,
                   from_items, to_items>>

\* The program passes the integer to_i64 just returned to from_i64; src
\* keeps the value it came from.
round_trip_i64 ==
    /\ Compiled /\ HasFrom
    /\ call.fn = "to_i64"
    /\ ret # None
    /\ call' = [fn |-> "from_i64", arg |-> ret[1], src |-> Some(call.arg)]
    /\ ret' = from_i64(FromImpl, ast, ret[1])
    /\ UNCHANGED <<ast, todo, derive, pc, iter, clauses, checked, diag,
                   from_items, to_items>>

round_trip_u64 ==
    /\ Compiled /\ HasFrom
    /\ call.fn = "to_u64"
    /\ ret # None
    /\ call' = [fn |-> "from_u64", arg |-> ret[1], src |-> Some(call.arg)]
    /\ ret' = from_u64(FromImpl, ast, ret[1])
    /\ UNCHANGED <<ast, todo, derive, pc, iter, clauses, checked, diag,
                   from_items, to_items>>

Expand ==
    \/ from_primitive_parse
    \/ from_primitive_match_data
    \/ from_primitive_match_fields
    \/ from_primitive_quote
    \/ from_primitive_emit
    \/ to_primitive_parse
    \/ to_primitive_match_data
    \/ to_primitive_match_fields
    \/ to_primitive_quote
    \/ to_primitive_emit

Next ==
    \/ Expand
    \/ call_from_i64
    \/ call_from_u64
    \/ call_to_i64
    \/ call_to_u64
    \/ round_trip_i64
    \/ round_trip_u64

Spec == Init /\ [][Next]_vars

\* ------------------------------------- a crate of several types
\* rustc goes on to the next annotated type of the crate (the macros are
\* registered at lines 138 and 246 and run once per annotated type).
next_type ==
    /\ pc \in {"done", "panicked"}
    /\ todo = <<>>
    /\ ast' \in CrateTypeDefs
    /\ todo' \in DeriveLists
    /\ UNCHANGED <<derive, pc, iter, clauses, checked, diag, from_items,
                   to_items, call, ret>>

InitCrate ==
    /\ ast \in CrateTypeDefs
    /\ todo \in DeriveLists
    /\ Idle

NextCrate == Expand \/ next_type

SpecCrate == InitCrate /\ [][NextCrate]_vars

\* ------------------------------------------------------- properties
\* What the properties speak of: the input's shape and the discriminants.
NVariants == Len(ast.variants)
IsEnum == ast.data = "Enum"
AllUnit == \A k \in 1..NVariants : ast.variants[k].fields = "Unit"
NoExplicit == \A k \in 1..NVariants : ast.variants[k].discriminant = None
PathAt(k) == <<ast.ident, ast.variants[k].ident>>
PosOf(path) == CHOOSE k \in 1..NVariants : PathAt(k) = path
DiscAt(k) == Discr(ast.variants, k)

\* Some(the first variant in declaration order whose discriminant is d), or
\* None when there is none.
FirstWith(d) ==
    IF \E k \in 1..NVariants : DiscAt(k) = d
    THEN Some(PathAt(CHOOSE k \in 1..NVariants :
                  /\ DiscAt(k) = d
                  /\ \A j \in 1..(k - 1) : DiscAt(j) # d))
    ELSE None

\* The u64 n read as a signed 64-bit integer: n below 2^63, n - 2^64 from
\* 2^63 (hi = 8) on.
Reinterpreted(n) == IF n.hi < 8 THEN n ELSE Big(n.hi - 16, n.mid, n.lo)

\* u is x modulo 2^64: a u64 that differs from x by 0 or by 2^64 (16 * 2^60).
IsModulo2P64(u, x) ==
    /\ u.hi \in 0..15
    /\ u.mid = x.mid
    /\ u.lo = x.lo
    /\ u.hi - x.hi \in {0, 16}

\* The doc example: enum Color { Red, Blue, Green = 42 }.
IsColor ==
    /\ IsEnum
    /\ NVariants = 3
    /\ AllUnit
    /\ ast.variants[1].discriminant = None
    /\ ast.variants[2].discriminant = None
    /\ ast.variants[3].discriminant = Some(Small(42))

\* C1: for an enumeration with no explicit discriminants, from_i64 applied
\* to the integer to_i64 returned for a variant returns Some(that variant).
C1_RoundTrip ==
    (call.fn = "from_i64" /\ call.src # None /\ NoExplicit)
        => ret = Some(call.src[1])

\* C1's case: the round trip through the last of several variants.
C1_Witness ==
    /\ call.fn = "from_i64"
    /\ call.src # None
    /\ NoExplicit
    /\ NVariants >= 2
    /\ call.src[1] = PathAt(NVariants)
    /\ ret = Some(PathAt(NVariants))

\* C2: for an input that is no enumeration, or an enumeration with a
\* variant carrying data, neither macro ever emits an item or ends in
\* success, and a macro that has ended has panicked with a message whose
\* first argument is the type's name and, for an enumeration, whose second
\* argument is the first data-carrying variant.
C2_ValidationFailure ==
    (~IsEnum \/ ~AllUnit) =>
        /\ from_items = {}
        /\ to_items = {}
        /\ pc # "done"
        /\ pc \in {"idle", "panicked"} \/ ENABLED Expand
        /\ pc = "panicked" =>
             /\ diag.trait = derive
             /\ diag.args[1] = ast.ident
             /\ IsEnum =>
                  /\ Len(diag.args) = 2
                  /\ \E k \in 1..NVariants :
                       /\ ast.variants[k].fields # "Unit"
                       /\ diag.args[2] = ast.variants[k].ident
                       /\ \A j \in 1..(k - 1) : ast.variants[j].fields = "Unit"
             /\ ~IsEnum => Len(diag.args) = 1

\* C2's case: the macro panicked on a tuple variant that follows a unit
\* variant, whose clause had already been built.
C2_Witness ==
    /\ pc = "panicked"
    /\ IsEnum
    /\ NVariants >= 2
    /\ ast.variants[1].fields = "Unit"
    /\ ast.variants[2].fields = "Unnamed"
    /\ Len(clauses) = 1
    /\ diag.args = <<ast.ident, ast.variants[2].ident>>

\* C3: from_i64(n) returns Some(the first variant in declaration order whose
\* discriminant is n) and None when no variant has discriminant n; a variant
\* that shares its discriminant with an earlier one is never returned.
C3_FirstMatchWins ==
    call.fn = "from_i64" =>
        /\ ret = FirstWith(call.arg)
        /\ ret # None =>
             \A j \in 1..(PosOf(ret[1]) - 1) : DiscAt(j) # DiscAt(PosOf(ret[1]))

\* C3's case: two variants with the explicit discriminant 5, from_i64(5)
\* returning the first.
C3_Witness ==
    /\ call.fn = "from_i64"
    /\ call.arg = Small(5)
    /\ NVariants >= 2
    /\ ast.variants[1].discriminant = Some(Small(5))
    /\ ast.variants[2].discriminant = Some(Small(5))
    /\ ret = Some(PathAt(1))

\* C4: to_i64 of a variant returns Some(d), d being the variant's explicit
\* discriminant or else one more than the previous variant's, 0 for the
\* first; for Red, Blue, Green = 42: to_i64(Green) = Some(42),
\* from_i64(42) = Some(Green), from_i64(2) = None.
C4_ToI64Discriminant ==
    /\ call.fn = "to_i64" =>
         LET k == PosOf(call.arg)
         IN  /\ ret # None
             /\ ret[1] = IF ast.variants[k].discriminant # None
                         THEN ast.variants[k].discriminant[1]
                         ELSE IF k = 1 THEN Small(0)
                         ELSE Succ(DiscAt(k - 1))
             /\ k > 1 /\ ast.variants[k - 1].discriminant = Some(Small(5))
                  /\ ast.variants[k].discriminant = None
                  => ret = Some(Small(6))
    /\ IsColor =>
         /\ call.fn = "to_i64" /\ call.arg = PathAt(3) => ret = Some(Small(42))
         /\ call.fn = "to_i64" /\ call.arg = PathAt(2) => ret = Some(Small(1))
         /\ call.fn = "from_i64" /\ call.arg = Small(42) => ret = Some(PathAt(3))
         /\ call.fn = "from_i64" /\ call.arg = Small(2) => ret = None

\* C4's case: to_i64(Green) = Some(42) on the doc example.
C4_Witness ==
    /\ IsColor
    /\ call.fn = "to_i64"
    /\ call.arg = PathAt(3)
    /\ ret = Some(Small(42))

\* C5: for an enumeration with no variants neither macro panics; the emitted
\* from_i64 has the parameter `_` and no clause, so it returns None for every
\* input; the emitted to_i64 is a match with no arm that is not wrapped in
\* Some; to_i64 and to_u64 are never called.
C5_ZeroVariants ==
    (IsEnum /\ NVariants = 0) =>
        /\ pc # "panicked"
        /\ pc \in {"idle", "done"} \/ ENABLED Expand
        /\ \A i \in from_items :
             i.exp.from_i64_var = "_" /\ i.exp.clauses = <<>>
        /\ \A i \in to_items :
             i.exp.match_expr = [some |-> FALSE, arms |-> <<>>]
        /\ call.fn \notin {"to_i64", "to_u64"}
        /\ call.fn \in {"from_i64", "from_u64"} => ret = None

\* C5's case: both macros ran on an enumeration with no variants and
\* from_i64 was called.
C5_Witness ==
    /\ IsEnum
    /\ NVariants = 0
    /\ from_items # {}
    /\ to_items # {}
    /\ call.fn = "from_i64"
    /\ call.arg = Small(0)
    /\ ret = None

\* C6: from_u64(n) returns what from_i64 returns for n read as a signed
\* 64-bit integer (n below 2^63, n - 2^64 otherwise), which is Some(the
\* first variant with that discriminant) when there is one;
\* from_u64(2^64 - 1) returns the variant with discriminant -1.
C6_FromU64Reinterprets ==
    call.fn = "from_u64" =>
        /\ ret = from_i64(FromImpl, ast, Reinterpreted(call.arg))
        /\ ret = FirstWith(Reinterpreted(call.arg))
        /\ call.arg = U64_MAX => ret = FirstWith(Small(-1))
        /\ call.arg = U64_2P63 => ret = FirstWith(I64_MIN)

\* C6's case: from_u64(2^64 - 1) returned a variant.
C6_Witness ==
    /\ call.fn = "from_u64"
    /\ call.src = None
    /\ call.arg = U64_MAX
    /\ ret # None
    /\ DiscAt(PosOf(ret[1])) = Small(-1)

\* C7: to_u64 of a variant returns Some(u), u being the variant's
\* discriminant modulo 2^64: a negative discriminant d gives d + 2^64.
C7_ToU64NeverFails ==
    call.fn = "to_u64" =>
        LET d == DiscAt(PosOf(call.arg))
        IN  /\ ret # None
            /\ IsModulo2P64(ret[1], d)
            /\ d.hi < 0 => ret[1] = Big(d.hi + 16, d.mid, d.lo)
            /\ d = Small(-1) => ret[1] = U64_MAX

\* C7's case: to_u64 of a variant with discriminant -1.
C7_Witness ==
    /\ call.fn = "to_u64"
    /\ DiscAt(PosOf(call.arg)) = Small(-1)
    /\ ret = Some(U64_MAX)

\* Two items of the crate.
SameScope(i, j) == i.dummy_const = j.dummy_const

\* C8: any two emitted items that differ in capability or in type name have
\* different scope identifiers.
C8_ScopeNamesUnique ==
    /\ \A i, j \in from_items :
         i.exp.impl_for # j.exp.impl_for => ~SameScope(i, j)
    /\ \A i, j \in to_items :
         i.exp.impl_for # j.exp.impl_for => ~SameScope(i, j)
    /\ \A i \in from_items, j \in to_items : ~SameScope(i, j)

C10_UnsignedRoundTrip ==
    (call.fn = "from_u64" /\ call.src # None) =>
        LET v == call.src[1]
            d == DiscAt(PosOf(v))
        IN  /\ ret = FirstWith(d)
            /\ ret = from_i64(FromImpl, ast, to_i64(ToImpl, ast, v)[1])
            /\ ret # None
            /\ (\A j, k \in 1..NVariants : j # k => DiscAt(j) # DiscAt(k))
                 => ret = Some(v)

\* C10's case: the round trip of a variant with a negative discriminant
\* that an earlier variant shares.
C10_Witness ==
    /\ call.fn = "from_u64"
    /\ call.src # None
    /\ call.arg = U64_MAX
    /\ PosOf(call.src[1]) = 2
    /\ ret = Some(PathAt(1))

=============================================================================
